---- MODULE Spec2Model ----
(***************************************************************************)
(* Model of static/js/socket.js: one module-scoped socket.io connection    *)
(* and four functions that each build a payload object and hand it to      *)
(* socket.emit.                                                            *)
(*                                                                         *)
(* JavaScript values are tagged records so that values of different types  *)
(* can be stored side by side and compared: a string and a number are      *)
(* never equal, and String(42) is a different value from 42.               *)
(***************************************************************************)
EXTENDS Integers, Sequences, FiniteSets

\* ---------------------------------------------------------------- bounds
\* Number of calls of the four functions in one behaviour.
MaxCalls == 2
\* Longest correctPlayers array the host page passes.
MaxPlayers == 3

\* ------------------------------------------------------ JavaScript values
Str(s) == [t |-> "string", s |-> s]
Num(n) == [t |-> "number", n |-> n]
Arr(a) == [t |-> "array", a |-> a]
Undefined == [t |-> "undefined"]

\* Arrays of length at most n over the set S.
RECURSIVE SeqsUpTo(_, _)
SeqsUpTo(S, n) ==
  IF n = 0 THEN {<<>>}
  ELSE LET shorter == SeqsUpTo(S, n - 1)
       IN  shorter \cup {Append(q, x) : q \in {r \in shorter : Len(r) = n - 1}, x \in S}

\* Argument values the surrounding page passes in.
GameIds == {Str(""), Str("ABCD")}
PlayerNames == {Str(""), Str("Alice")}
Answers == {Num(42), Str("Paris")}
Players == {Str("Alice"), Str("Bob")}
PlayerLists == {Arr(a) : a \in SeqsUpTo(Players, MaxPlayers)}
\* The role of the page that loaded the script; no function can see it.
Roles == {"host", "player"}

\* ------------------------------------------------------------------ state
VARIABLES
  socket,    \* the module-scoped binding: id of the connection it refers to
  ioCalls,   \* number of connections created with io()
  outbound,  \* messages handed to socket.emit, in order
  calls,     \* log of the calls made by the page: function, arguments, result
  role       \* role of the page's user

vars == <<socket, ioCalls, outbound, calls, role>>

\* const socket = io();
io(n) == n + 1

\* socket.emit(event, data): the message is handed to connection conn.
emit(conn, event, data) ==
  Append(outbound, [conn |-> conn, event |-> event, data |-> data])

\* The page's record of a call that returned normally without a value.
Returned(op, args) ==
  Append(calls, [op |-> op, args |-> args, caller |-> role,
                 before |-> Len(outbound), after |-> Len(outbound'),
                 ret |-> Undefined, threw |-> FALSE])

Init ==
  /\ ioCalls = io(0)
  /\ socket = ioCalls
  /\ outbound = <<>>
  /\ calls = <<>>
  /\ role \in Roles

\* joinGame that skips a message it has already sent (deduplication).
joinGame_dedup(gameId, playerName) ==
  /\ Len(calls) < MaxCalls
  /\ LET msg == [conn |-> socket, event |-> "join",
                 data |-> [game_id |-> gameId, player |-> playerName]]
     IN  outbound' = IF \E i \in 1..Len(outbound) : outbound[i] = msg
                     THEN outbound
                     ELSE Append(outbound, msg)
  /\ calls' = Returned("joinGame", [gameId |-> gameId, playerName |-> playerName])
  /\ UNCHANGED <<socket, ioCalls, role>>

\* joinGame with the two payload values swapped.
joinGame_swapped(gameId, playerName) ==
  /\ Len(calls) < MaxCalls
  /\ outbound' = emit(socket, "join", [game_id |-> playerName, player |-> gameId])
  /\ calls' = Returned("joinGame", [gameId |-> gameId, playerName |-> playerName])
  /\ UNCHANGED <<socket, ioCalls, role>>

\* joinGame that opens a connection of its own on every call.
joinGame_reconnect(gameId, playerName) ==
  /\ Len(calls) < MaxCalls
  /\ ioCalls' = io(ioCalls)
  /\ socket' = ioCalls'
  /\ outbound' = emit(socket', "join", [game_id |-> gameId, player |-> playerName])
  /\ calls' = Returned("joinGame", [gameId |-> gameId, playerName |-> playerName])
  /\ UNCHANGED role

joinGame(gameId, playerName) ==
  /\ Len(calls) < MaxCalls
  /\ outbound' = emit(socket, "join", [game_id |-> gameId, player |-> playerName])
  /\ calls' = Returned("joinGame", [gameId |-> gameId, playerName |-> playerName])
  /\ UNCHANGED <<socket, ioCalls, role>>

\* String(v) for the values of the model.
StringOf(v) ==
  IF v.t = "number" THEN Str(IF v.n = 42 THEN "42" ELSE "NaN") ELSE v

\* sendAnswer that converts the answer to a string before sending it.
sendAnswer_stringified(gameId, playerName, answer) ==
  /\ Len(calls) < MaxCalls
  /\ outbound' = emit(socket, "submit_answer",
                      [game_id |-> gameId, player |-> playerName,
                       answer |-> StringOf(answer)])
  /\ calls' = Returned("sendAnswer",
                       [gameId |-> gameId, playerName |-> playerName, answer |-> answer])
  /\ UNCHANGED <<socket, ioCalls, role>>

\* sendAnswer that sends only for a game this page has joined.
sendAnswer_joinedOnly(gameId, playerName, answer) ==
  /\ Len(calls) < MaxCalls
  /\ outbound' = IF \E i \in 1..Len(outbound) :
                       /\ outbound[i].event = "join"
                       /\ outbound[i].data.game_id = gameId
                  THEN emit(socket, "submit_answer",
                            [game_id |-> gameId, player |-> playerName, answer |-> answer])
                  ELSE outbound
  /\ calls' = Returned("sendAnswer",
                       [gameId |-> gameId, playerName |-> playerName, answer |-> answer])
  /\ UNCHANGED <<socket, ioCalls, role>>

\* sendAnswer that puts its message ahead of the messages already handed over.
sendAnswer_replace(gameId, playerName, answer) ==
  /\ Len(calls) < MaxCalls
  /\ LET msg == [conn |-> socket, event |-> "submit_answer",
                 data |-> [game_id |-> gameId, player |-> playerName, answer |-> answer]]
     IN  outbound' = <<msg>> \o outbound
  /\ calls' = Returned("sendAnswer",
                       [gameId |-> gameId, playerName |-> playerName, answer |-> answer])
  /\ UNCHANGED <<socket, ioCalls, role>>

sendAnswer(gameId, playerName, answer) ==
  /\ Len(calls) < MaxCalls
  /\ outbound' = emit(socket, "submit_answer",
                      [game_id |-> gameId, player |-> playerName, answer |-> answer])
  /\ calls' = Returned("sendAnswer",
                       [gameId |-> gameId, playerName |-> playerName, answer |-> answer])
  /\ UNCHANGED <<socket, ioCalls, role>>

\* The array a without the later occurrences of a repeated element.
RECURSIVE Dedup(_)
Dedup(a) ==
  IF a = <<>> THEN <<>>
  ELSE LET front == Dedup(SubSeq(a, 1, Len(a) - 1))
           last == a[Len(a)]
       IN  IF \E i \in 1..Len(front) : front[i] = last THEN front ELSE Append(front, last)

\* validateCorrectAnswers that sends each correct player once.
validateCorrectAnswers_dedup(gameId, correctPlayers) ==
  /\ Len(calls) < MaxCalls
  /\ outbound' = emit(socket, "validate_answers",
                      [game_id |-> gameId, correct_players |-> Arr(Dedup(correctPlayers.a))])
  /\ calls' = Returned("validateCorrectAnswers",
                       [gameId |-> gameId, correctPlayers |-> correctPlayers])
  /\ UNCHANGED <<socket, ioCalls, role>>

\* validateCorrectAnswers that throws for a page that is not the host's.
validateCorrectAnswers_hostOnly(gameId, correctPlayers) ==
  /\ Len(calls) < MaxCalls
  /\ outbound' = IF role = "host"
                  THEN emit(socket, "validate_answers",
                            [game_id |-> gameId, correct_players |-> correctPlayers])
                  ELSE outbound
  /\ calls' = Append(calls,
                     [op |-> "validateCorrectAnswers",
                      args |-> [gameId |-> gameId, correctPlayers |-> correctPlayers],
                      caller |-> role,
                      before |-> Len(outbound), after |-> Len(outbound'),
                      ret |-> Undefined, threw |-> (role # "host")])
  /\ UNCHANGED <<socket, ioCalls, role>>

validateCorrectAnswers(gameId, correctPlayers) ==
  /\ Len(calls) < MaxCalls
  /\ outbound' = emit(socket, "validate_answers",
                      [game_id |-> gameId, correct_players |-> correctPlayers])
  /\ calls' = Returned("validateCorrectAnswers",
                       [gameId |-> gameId, correctPlayers |-> correctPlayers])
  /\ UNCHANGED <<socket, ioCalls, role>>

\* endGame whose payload also carries a player field.
endGame_extraField(gameId) ==
  /\ Len(calls) < MaxCalls
  /\ outbound' = emit(socket, "end_game", [game_id |-> gameId, player |-> Undefined])
  /\ calls' = Returned("endGame", [gameId |-> gameId])
  /\ UNCHANGED <<socket, ioCalls, role>>

\* endGame whose payload names the field gameId instead of game_id.
endGame_camelCase(gameId) ==
  /\ Len(calls) < MaxCalls
  /\ outbound' = emit(socket, "end_game", [gameId |-> gameId])
  /\ calls' = Returned("endGame", [gameId |-> gameId])
  /\ UNCHANGED <<socket, ioCalls, role>>

endGame(gameId) ==
  /\ Len(calls) < MaxCalls
  /\ outbound' = emit(socket, "end_game", [game_id |-> gameId])
  /\ calls' = Returned("endGame", [gameId |-> gameId])
  /\ UNCHANGED <<socket, ioCalls, role>>

Next ==
  \/ \E g \in GameIds, p \in PlayerNames : joinGame(g, p)
  \/ \E g \in GameIds, p \in PlayerNames, a \in Answers : sendAnswer(g, p, a)
  \/ \E g \in GameIds, c \in PlayerLists : validateCorrectAnswers(g, c)
  \/ \E g \in GameIds : endGame(g)

Spec == Init /\ [][Next]_vars

\* ------------------------------------------------------------ properties
\* Indices of the logged calls of function op.
CallsOf(op) == {i \in 1..Len(calls) : calls[i].op = op}

\* The messages handed to the connection during the logged call c.
EmittedBy(c) ==
  IF c.after <= Len(outbound) /\ c.before <= c.after
  THEN SubSeq(outbound, c.before + 1, c.after)
  ELSE <<>>

\* The message table of the wire contract: the event name and payload of a call.
WireEvent(op) ==
  CASE op = "joinGame" -> "join"
    [] op = "sendAnswer" -> "submit_answer"
    [] op = "validateCorrectAnswers" -> "validate_answers"
    [] op = "endGame" -> "end_game"

WirePayload(op, args) ==
  CASE op = "joinGame" -> [game_id |-> args.gameId, player |-> args.playerName]
    [] op = "sendAnswer" ->
         [game_id |-> args.gameId, player |-> args.playerName, answer |-> args.answer]
    [] op = "validateCorrectAnswers" ->
         [game_id |-> args.gameId, correct_players |-> args.correctPlayers]
    [] op = "endGame" -> [game_id |-> args.gameId]

WireFields(event) ==
  CASE event = "join" -> {"game_id", "player"}
    [] event = "submit_answer" -> {"game_id", "player", "answer"}
    [] event = "validate_answers" -> {"game_id", "correct_players"}
    [] event = "end_game" -> {"game_id"}
    [] OTHER -> {}

\* C1: every call joinGame(gameId, playerName) hands exactly one message to
\* the connection; its event is 'join' and its payload has exactly the fields
\* game_id = gameId and player = playerName.
C1_JoinMessage ==
  \A i \in CallsOf("joinGame") :
    LET c == calls[i]
        sent == EmittedBy(c)
    IN  /\ Len(sent) = 1
        /\ c.after = c.before + 1
        /\ sent[1].event = "join"
        /\ DOMAIN sent[1].data = {"game_id", "player"}
        /\ sent[1].data.game_id = c.args.gameId
        /\ sent[1].data.player = c.args.playerName

\* joinGame("ABCD", "Alice") was called and its join message is on the connection.
C1_Witness ==
  \E i \in CallsOf("joinGame") :
    /\ calls[i].args = [gameId |-> Str("ABCD"), playerName |-> Str("Alice")]
    /\ EmittedBy(calls[i]) =
         <<[conn |-> socket, event |-> "join",
            data |-> [game_id |-> Str("ABCD"), player |-> Str("Alice")]]>>

\* C2: every call sendAnswer(gameId, playerName, answer) hands exactly one
\* message to the connection: event 'submit_answer', payload fields game_id,
\* player and answer, and the answer of the payload is the argument itself,
\* of the same type and value (a number stays a number).
C2_AnswerMessage ==
  \A i \in CallsOf("sendAnswer") :
    LET c == calls[i]
        sent == EmittedBy(c)
    IN  /\ Len(sent) = 1
        /\ c.after = c.before + 1
        /\ sent[1].event = "submit_answer"
        /\ DOMAIN sent[1].data = {"game_id", "player", "answer"}
        /\ sent[1].data.game_id = c.args.gameId
        /\ sent[1].data.player = c.args.playerName
        /\ sent[1].data.answer = c.args.answer
        /\ sent[1].data.answer.t = c.args.answer.t

\* sendAnswer("ABCD", "Alice", 42) was called and the number 42 is in its payload.
C2_Witness ==
  \E i \in CallsOf("sendAnswer") :
    /\ calls[i].args =
         [gameId |-> Str("ABCD"), playerName |-> Str("Alice"), answer |-> Num(42)]
    /\ Len(EmittedBy(calls[i])) = 1
    /\ EmittedBy(calls[i])[1].data.answer = Num(42)

\* C3: every call validateCorrectAnswers(gameId, correctPlayers) hands exactly
\* one message to the connection: event 'validate_answers', payload fields
\* game_id = gameId and correct_players with the elements of correctPlayers in
\* the same order, repeated elements and the empty array included.
C3_ValidateMessage ==
  \A i \in CallsOf("validateCorrectAnswers") :
    LET c == calls[i]
        sent == EmittedBy(c)
    IN  /\ Len(sent) = 1
        /\ c.after = c.before + 1
        /\ sent[1].event = "validate_answers"
        /\ DOMAIN sent[1].data = {"game_id", "correct_players"}
        /\ sent[1].data.game_id = c.args.gameId
        /\ sent[1].data.correct_players.t = "array"
        /\ Len(sent[1].data.correct_players.a) = Len(c.args.correctPlayers.a)
        /\ \A k \in 1..Len(c.args.correctPlayers.a) :
             sent[1].data.correct_players.a[k] = c.args.correctPlayers.a[k]

\* validateCorrectAnswers was called with the empty array and with the
\* unsorted array ["Bob", "Alice", "Bob"], and both arrived as passed.
C3_Witness ==
  /\ \E i \in CallsOf("validateCorrectAnswers") :
       /\ calls[i].args.correctPlayers = Arr(<<>>)
       /\ Len(EmittedBy(calls[i])) = 1
       /\ EmittedBy(calls[i])[1].data.correct_players = Arr(<<>>)
  /\ \E i \in CallsOf("validateCorrectAnswers") :
       /\ calls[i].args.correctPlayers = Arr(<<Str("Bob"), Str("Alice"), Str("Bob")>>)
       /\ Len(EmittedBy(calls[i])) = 1
       /\ EmittedBy(calls[i])[1].data.correct_players =
            Arr(<<Str("Bob"), Str("Alice"), Str("Bob")>>)

\* C4: every call endGame(gameId) hands exactly one message to the
\* connection: event 'end_game', and the payload's set of fields is exactly
\* {game_id}, with game_id = gameId.
C4_EndMessage ==
  \A i \in CallsOf("endGame") :
    LET c == calls[i]
        sent == EmittedBy(c)
    IN  /\ Len(sent) = 1
        /\ c.after = c.before + 1
        /\ sent[1].event = "end_game"
        /\ DOMAIN sent[1].data = {"game_id"}
        /\ {"player", "answer", "correct_players"} \cap DOMAIN sent[1].data = {}
        /\ sent[1].data.game_id = c.args.gameId

\* endGame("ABCD") was called and its end_game message is on the connection.
C4_Witness ==
  \E i \in CallsOf("endGame") :
    /\ calls[i].args = [gameId |-> Str("ABCD")]
    /\ EmittedBy(calls[i]) =
         <<[conn |-> socket, event |-> "end_game", data |-> [game_id |-> Str("ABCD")]]>>

\* C5: after n calls exactly n messages have been handed to the connection,
\* also when calls have identical arguments (nothing is deduplicated).
C5_NoDeduplication ==
  Len(outbound) = Len(calls)

\* The same function was called twice with identical arguments and two equal
\* messages are on the connection.
C5_Witness ==
  \E i, j \in 1..Len(calls) :
    /\ i < j
    /\ calls[i].op = calls[j].op
    /\ calls[i].args = calls[j].args
    /\ j <= Len(outbound)
    /\ outbound[i] = outbound[j]

\* C6: every message handed to the connection has one of the four event
\* names, the field set the message table gives for that event, and a game_id
\* field equal to the gameId argument of the call that emitted it.
C6_GameIdOnEveryMessage ==
  /\ \A k \in 1..Len(outbound) :
       /\ outbound[k].event \in {"join", "submit_answer", "validate_answers", "end_game"}
       /\ DOMAIN outbound[k].data = WireFields(outbound[k].event)
       /\ "game_id" \in DOMAIN outbound[k].data
  /\ \A i \in 1..Len(calls) :
       \A k \in (calls[i].before + 1)..calls[i].after :
         /\ k <= Len(outbound)
         /\ "game_id" \in DOMAIN outbound[k].data
         /\ outbound[k].data.game_id = calls[i].args.gameId

\* Messages of two different events for two different games are on the connection.
C6_Witness ==
  \E j, k \in 1..Len(outbound) :
    /\ outbound[j].event = "validate_answers"
    /\ outbound[k].event = "end_game"
    /\ outbound[j].data.game_id = Str("")
    /\ outbound[k].data.game_id = Str("ABCD")

\* C7: the message of a call depends on the call's function and arguments
\* only: whatever calls came before (no join for that game, the game already
\* ended), the call emits the one message the message table gives for it.
C7_Stateless ==
  \A i \in 1..Len(calls) :
    EmittedBy(calls[i]) =
      <<[conn |-> 1, event |-> WireEvent(calls[i].op),
         data |-> WirePayload(calls[i].op, calls[i].args)]>>

\* sendAnswer emitted its message for a game that was ended and never joined.
C7_Witness ==
  /\ Len(calls) = 2
  /\ calls[1].op = "endGame"
  /\ calls[2].op = "sendAnswer"
  /\ calls[1].args.gameId = calls[2].args.gameId
  /\ Len(outbound) = 2
  /\ outbound[2].event = "submit_answer"
  /\ \A k \in 1..Len(outbound) : outbound[k].event # "join"

\* C8: no call is rejected: for any arguments (the empty string included) and
\* any role of the caller, the call returns undefined, throws nothing, and
\* hands its message over exactly once with the argument values as passed.
C8_NoValidation ==
  \A i \in 1..Len(calls) :
    LET c == calls[i]
    IN  /\ c.ret = Undefined
        /\ c.threw = FALSE
        /\ c.after - c.before = 1
        /\ Len(EmittedBy(c)) = 1
        /\ \A f \in DOMAIN EmittedBy(c)[1].data :
             \E a \in DOMAIN c.args : EmittedBy(c)[1].data[f] = c.args[a]
        /\ \A a \in DOMAIN c.args :
             \E f \in DOMAIN EmittedBy(c)[1].data : EmittedBy(c)[1].data[f] = c.args[a]

\* A page that is not the host's called validateCorrectAnswers and endGame
\* with the empty string as gameId, and both messages went out.
C8_Witness ==
  /\ role = "player"
  /\ \E i \in CallsOf("validateCorrectAnswers"), j \in CallsOf("endGame") :
       /\ calls[i].args.gameId = Str("")
       /\ calls[j].args.gameId = Str("")
       /\ calls[i].caller = "player"
       /\ Len(EmittedBy(calls[i])) = 1
       /\ Len(EmittedBy(calls[j])) = 1
       /\ EmittedBy(calls[i])[1].data.game_id = Str("")

\* C9: one connection is created, at load; no call creates another or
\* rebinds socket; every message is sent on that connection; and a call
\* changes nothing but the outbound stream, to which it appends one message.
C9_FrameStep ==
  /\ socket' = socket
  /\ ioCalls' = ioCalls
  /\ role' = role
  /\ Len(outbound') = Len(outbound) + 1
  /\ SubSeq(outbound', 1, Len(outbound)) = outbound
  /\ outbound'[Len(outbound')].conn = socket

C9_OneConnection ==
  /\ [](ioCalls = 1 /\ socket = 1 /\ \A k \in 1..Len(outbound) : outbound[k].conn = socket)
  /\ [][C9_FrameStep]_vars

\* Two calls have been made and both messages are on the connection made at load.
C9_Witness ==
  /\ Len(calls) = 2
  /\ calls[1].op = "joinGame"
  /\ calls[2].op = "endGame"
  /\ ioCalls = 1
  /\ Len(outbound) = 2
  /\ outbound[1].conn = socket
  /\ outbound[2].conn = socket

\* C10: messages are handed over in the order of the calls: the i-th message
\* is the message of the i-th call, and a call leaves the messages already
\* handed over as they are, in their places.
C10_InOrder ==
  /\ Len(outbound) >= Len(calls)
  /\ \A i \in 1..Len(calls) :
       /\ calls[i].before = i - 1
       /\ outbound[i].event = WireEvent(calls[i].op)
       /\ outbound[i].data = WirePayload(calls[i].op, calls[i].args)

C10_AppendOnly ==
  \A k \in 1..Len(outbound) : k <= Len(outbound') /\ outbound'[k] = outbound[k]

C10_CallOrder ==
  /\ []C10_InOrder
  /\ [][C10_AppendOnly]_vars

\* sendAnswer then joinGame were called and their messages lie in that order.
C10_Witness ==
  /\ Len(calls) = 2
  /\ calls[1].op = "sendAnswer"
  /\ calls[2].op = "joinGame"
  /\ Len(outbound) = 2
  /\ outbound[1].event = "submit_answer"
  /\ outbound[2].event = "join"

====
